---- MODULE Spec2Model ----
(***************************************************************************)
(* The physics manager of the viewer (PhysicsManager.cpp / PhysicsManager.h *)
(* and the Bullet specialisation): initPhysics, initScene, initObject, the  *)
(* mesh primitive validator, stepPhysics, applyForce / applyImpulse and     *)
(* setTimestep, as a state machine driven by a single caller thread.        *)
(*                                                                         *)
(* Time is counted in ticks of 1/240 s, the default fixedTimeStep_.         *)
(***************************************************************************)
EXTENDS Integers, Sequences, FiniteSets, TLC

----------------------------------------------------------------------------
(* Bounds of the model *)

\* dynamic objects that may be registered before addObject is no longer called
MaxObjects == 2
\* longest collision mesh group handed to initScene / initObject
MaxMeshLen == 2
\* largest frame duration (ticks) handed to the backend world in one step
MaxDt == 12
\* stepPhysics is no longer called once the world time has reached this
MaxWorldTime == 2
\* stepPhysics calls that are profiled before stepping stops
MaxFrames == 1
\* force / impulse calls queued between two steps, over all bodies
MaxPending == 1
\* items a list of the attribute store holds before append is no longer called
MaxListLen == 2
\* calls made on the first of two managers before the second one is driven
MaxScript == 3
\* identities the viewer's list holds before the viewer adds no more objects
MaxObjectIDs == 2
\* successful scene constructions before initScene is no longer called
MaxScenes == 2

----------------------------------------------------------------------------
(* Program constants *)

\* int maxSubSteps_ = 10;
maxSubSteps == 10
\* float fixedTimeStep_ = 1.0f / 240.0f;  (one tick)
DefaultFixedTimeStep == 1
\* if (!objectSuccess) {return -1;}
FailureID == -1
\* initObject: "return false;" from a function that returns int
FalseAsInt == 0
\* void stepPhysics(double dt = -1.0);  (one second back, in ticks)
DefaultDt == -240
\* setDouble("mass", 1.0);  (in thousandths, the unit of the derived mass)
DefaultMass == 1000

----------------------------------------------------------------------------
(* Input domains *)

\* Magnum::MeshPrimitive tags; "Unknown" stands for any other tag value
MeshPrimitives ==
  {"Points", "Lines", "LineLoop", "LineStrip",
   "Triangles", "TriangleStrip", "TriangleFan", "Unknown"}

\* std::vector<assets::CollisionMeshData>, each element reduced to its primitive
MeshGroupsOver(primitives) == UNION {[1..n -> primitives] : n \in 0..MaxMeshLen}

\* the groups the validator is judged on
MeshGroups == MeshGroupsOver(MeshPrimitives)

\* the groups handed to initScene / initObject: empty, accepted, and refused at
\* the first or at the second primitive
ManagerMeshGroups ==
  {<<>>, <<"Triangles">>, <<"Lines">>, <<"Triangles", "Triangles">>,
   <<"Triangles", "Lines">>, <<"Lines", "Triangles">>}

\* gravity vectors handed to initPhysics
Gravities == {"down", "up"}

\* timeline_.previousFrameDuration(): a duration, never negative
DtValues == {0, 1, MaxDt}

\* values handed to setTimestep(double dt)
TimestepValues == {0, 1, 2}

\* what becomes of the process after undefined behaviour (a call through a null
\* pointer, a read past the end of a vector): it is ended, or it goes on in a
\* state the language says nothing about; no later call is followed
UBOutcomes == {"crashed", "undefined"}

\* the outcomes of a call: those of undefined behaviour when it runs into it
OutcomesWhen(ub) == IF ub THEN UBOutcomes ELSE {"running"}

\* wall-clock duration of one backend step, as added to total_time_
ElapsedValues == {1, 2}

\* object identities a caller may pass: the failure value and those initObject
\* may issue, whether it has issued them yet or not
ObjectIDs == (-1)..(MaxObjects - 1)

\* translation vectors handed to setTranslation, reduced to one coordinate
Translations == 0..2

\* meshGroup[0].indices.size(): the mass is this many thousandths
IndexCounts == {3, 6}

\* indices.size() read from a primitive that does not exist (an empty vector)
GarbageIndexCounts == {0, 7}

\* the mass configured for an object in its PhysicsObjectAttributes: none, or
\* the one the constructor sets
ConfiguredMasses == {<<>>, <<DefaultMass>>}

\* what indices.size() may be for a mesh group
IndexCountsOf(meshGroup) ==
  IF Len(meshGroup) = 0 THEN GarbageIndexCounts ELSE IndexCounts

----------------------------------------------------------------------------
(* State *)

VARIABLES
  initialized,     \* bool initialized_
  do_profile,      \* bool do_profile_
  total_frames,    \* int total_frames_
  total_time,      \* float total_time_
  fixedTimeStep,   \* float fixedTimeStep_
  bWorld,          \* std::shared_ptr<btDiscreteDynamicsWorld> bWorld_
  physicsNode,     \* scene::SceneNode* physicsNode
  dynamicObjects,  \* std::map<int, physics::RigidObject*> dynamicObjects_
  nextObjectID,    \* int nextObjectID_
  process,         \* "running"; "crashed" or "undefined" after undefined behaviour
  lastCall,        \* the call that produced this state, with what it returned
  issued,          \* history: identities returned by successful initObject calls
  removed,         \* history: identities removed by removeObject
  failed,          \* history: values returned by failed initObject calls
  vGroup,          \* validator harness: the mesh group under test
  vResult,         \* validator harness: the verdict ("none" before the call)
  doubleMap,       \* std::map<std::string, double> doubleMap_
  intMap,          \* std::map<std::string, int> intMap_
  stringMap,       \* std::map<std::string, std::string> stringMap_
  magnumVec3Map,   \* std::map<std::string, Magnum::Vector3> magnumVec3Map_
  vecStringsMap,   \* std::map<std::string, std::vector<std::string>> vecStringsMap_
  lastAttr,        \* the last call made on the attribute store, with its result
  script,          \* two managers: the calls made on the first one
  trace,           \* two managers: what the first one was after each call
  driven,          \* two managers: the one being driven, 1 or 2
  pos,             \* two managers: calls of the script made on the second one
  objectIDs        \* std::vector<int> objectIDs of the viewer

managerVars ==
  <<initialized, do_profile, total_frames, total_time, fixedTimeStep,
    bWorld, physicsNode, dynamicObjects, nextObjectID, process>>
historyVars == <<lastCall, issued, removed, failed>>
validatorVars == <<vGroup, vResult>>
storeVars == <<doubleMap, intMap, stringMap, magnumVec3Map, vecStringsMap>>
attributeVars == <<storeVars, lastAttr>>
replayVars == <<script, trace, driven, pos>>
viewerVars == <<objectIDs>>
vars ==
  <<managerVars, historyVars, validatorVars, attributeVars, replayVars,
    viewerVars>>

\* bWorld_ before initPhysics: a null shared_ptr
NoWorld == [exists |-> FALSE, gravity |-> "none", time |-> 0, localTime |-> 0,
            scenes |-> 0, momentum |-> 0]

\* std::make_shared<btDiscreteDynamicsWorld>(...) followed by setGravity
NewWorld(gravity) ==
  [exists |-> TRUE, gravity |-> gravity, time |-> 0, localTime |-> 0,
   scenes |-> 0, momentum |-> 0]

\* a null physics::RigidObject* (what std::map::operator[] default-constructs)
NullObject == [null |-> TRUE, forces |-> 0, impulses |-> 0, inWorld |-> FALSE,
               translation |-> 0]

\* a RigidObject whose initializeObject succeeded: its body was built in the
\* world handed to it, *bWorld_.get()
NewObject == [null |-> FALSE, forces |-> 0, impulses |-> 0, inWorld |-> TRUE,
              translation |-> 0]

\* the record kept of a call; fields a call does not use keep these values
NoCall ==
  [op |-> "none", id |-> FailureID, valid |-> FALSE, empty |-> FALSE,
   invoked |-> FALSE, ok |-> FALSE, res |-> FailureID, ub |-> FALSE,
   err |-> "none", mass |-> 0, capped |-> FALSE, applied |-> 0,
   gravity |-> "none", vec |-> 0, repeat |-> FALSE, indices |-> 0,
   configured |-> <<>>, kinematic |-> FALSE]

Call(op) == [NoCall EXCEPT !.op = op]

\* a std::map without entries
EmptyMap == [k \in {} |-> ""]

\* the record kept of a call on the attribute store: the partition and key it
\* named, the value it was given (val, list), what it returned (val, list,
\* flag, num) and the exception it threw
NoAttrCall ==
  [op |-> "none", t |-> "none", key |-> "", val |-> "", list |-> <<>>,
   flag |-> FALSE, num |-> 0, err |-> "none"]

AttrCall(op, t, key) == [NoAttrCall EXCEPT !.op = op, !.t = t, !.key = key]

\* no call made yet on either of the two managers
InitReplay ==
  /\ script = <<>>
  /\ trace = <<>>
  /\ driven = 1
  /\ pos = 0

\* Attributes::Attributes(): five empty maps
InitAttributes ==
  /\ doubleMap = EmptyMap
  /\ intMap = EmptyMap
  /\ stringMap = EmptyMap
  /\ magnumVec3Map = EmptyMap
  /\ vecStringsMap = EmptyMap
  /\ lastAttr = NoAttrCall

Init ==
  /\ initialized = FALSE
  /\ do_profile = FALSE
  /\ total_frames = 0
  /\ total_time = 0
  /\ fixedTimeStep = DefaultFixedTimeStep
  /\ bWorld = NoWorld
  /\ physicsNode = FALSE
  /\ dynamicObjects = [k \in {} |-> NullObject]
  /\ nextObjectID = 0
  /\ process = "running"
  /\ lastCall = NoCall
  /\ issued = <<>>
  /\ removed = {}
  /\ failed = {}
  /\ vGroup = <<>>
  /\ vResult = "none"
  /\ InitAttributes
  /\ InitReplay
  /\ objectIDs = <<>>

----------------------------------------------------------------------------
(* Geometry validation *)

\* a validator that also lets triangle strips through
isMeshPrimitiveValidStrips(primitive) ==
  primitive \in {"Triangles", "TriangleStrip"}

\* PhysicsManager::isMeshPrimitiveValid: only Triangles; every other tag is
\* logged and refused
isMeshPrimitiveValid(primitive) ==
  IF primitive = "Triangles"
    THEN TRUE
    ELSE FALSE

\* for (meshData : meshGroup) if (!isMeshPrimitiveValid(meshData)) return false;
RECURSIVE ValidateFrom(_, _)
ValidateFrom(meshGroup, i) ==
  IF i > Len(meshGroup)
    THEN TRUE
    ELSE IF ~isMeshPrimitiveValid(meshGroup[i])
      THEN FALSE
      ELSE ValidateFrom(meshGroup, i + 1)

MeshGroupValid(meshGroup) == ValidateFrom(meshGroup, 1)

----------------------------------------------------------------------------
(* The backend world and the rigid objects, as far as the manager uses them *)

Min(a, b) == IF a < b THEN a ELSE b

\* the vertical acceleration of a gravity vector, per tick: the gravities handed
\* to initPhysics and setGravity differ in their direction only
Pull(gravity) ==
  CASE gravity = "down" -> -1
    [] gravity = "up" -> 1
    [] OTHER -> 0

\* btDiscreteDynamicsWorld::stepSimulation(timeStep, maxSub, fixed): the sub-steps
\* it runs and the world it leaves.  With maxSub = 0 the whole timeStep is taken
\* as one variable step; otherwise timeStep is added to the local time, whole
\* multiples of fixed are taken off it and at most maxSub of them are simulated.
\* Every simulated interval is integrated with the gravity the world holds when
\* the step is made: momentum is the velocity a free body has got from it.
WorldStepSimulation(w, timeStep, maxSub, fixed) ==
  IF maxSub = 0
    THEN [world |-> [w EXCEPT !.time = @ + timeStep, !.localTime = timeStep,
                              !.momentum = @ + Pull(w.gravity) * timeStep],
          steps |-> IF timeStep = 0 THEN 0 ELSE 1, capped |-> FALSE]
    ELSE
      LET local == w.localTime + timeStep
          n     == IF local >= fixed THEN local \div fixed ELSE 0
          run   == Min(n, maxSub)
      IN  [world |-> [w EXCEPT !.time = @ + run * fixed,
                               !.localTime = local - n * fixed,
                               !.momentum = @ + Pull(w.gravity) * run * fixed],
           steps |-> run, capped |-> n > maxSub]

\* RigidObject::applyForce / applyImpulse: queued on the body until the next step
BodyApplyForce(b) == [b EXCEPT !.forces = @ + 1]
BodyApplyImpulse(b) == [b EXCEPT !.impulses = @ + 1]

\* the force and impulse calls the backend step applies: those queued on the
\* bodies of the stepped world
RECURSIVE AppliedByStep(_, _)
AppliedByStep(objects, ids) ==
  IF ids = {} THEN 0
  ELSE LET k == CHOOSE x \in ids : TRUE
       IN  (IF objects[k].null \/ ~objects[k].inWorld THEN 0
            ELSE objects[k].forces + objects[k].impulses)
           + AppliedByStep(objects, ids \ {k})

\* the backend step consumes what was queued on every body of the stepped world
BodiesAfterStep(objects) ==
  [k \in DOMAIN objects |->
     IF objects[k].null \/ ~objects[k].inWorld THEN objects[k]
     ELSE [objects[k] EXCEPT !.forces = 0, !.impulses = 0]]

----------------------------------------------------------------------------
(* PhysicsManager::initPhysics *)

\* bWorld_ = std::make_shared<btDiscreteDynamicsWorld>(...): the world is a new
\* one, and the bodies built in the world it replaces are not in it
ObjectsAfterInitPhysics(objects) ==
  [k \in DOMAIN objects |-> [objects[k] EXCEPT !.inWorld = FALSE]]

\* a clock that starts again with every world
WorldAfterInitPhysicsReset(w, gravity) == NewWorld(gravity)

\* the record of the world after initPhysics: a new world with the gravity.
\* The backend world keeps the remainder of the time it was handed (localTime)
\* and no clock; the time simulated so far (time) is the manager's, and
\* initPhysics assigns bWorld_, physicsNode, initialized_ and do_profile_ only
WorldAfterInitPhysics(w, gravity) == [NewWorld(gravity) EXCEPT !.time = w.time]

\* bWorld_ = make_shared<...>; setGravity; physicsNode = node;
\* initialized_ = true; do_profile_ = do_profile; return true;
initPhysics(gravity, profile) ==
  /\ process = "running"
  /\ bWorld' = WorldAfterInitPhysics(bWorld, gravity)
  /\ dynamicObjects' = ObjectsAfterInitPhysics(dynamicObjects)
  /\ physicsNode' = TRUE
  /\ initialized' = TRUE
  /\ do_profile' = profile
  /\ lastCall' = [Call("initPhysics") EXCEPT !.ok = TRUE]
  /\ UNCHANGED <<total_frames, total_time, fixedTimeStep,
                 nextObjectID, process, issued, removed, failed, validatorVars, attributeVars>>

----------------------------------------------------------------------------
(* PhysicsManager::initScene *)

\* the world after physObject->initializeScene(info, mass, meshGroup, *bWorld_)
\* answered sceneSuccess: a scene body was built in it when it succeeded
WorldAfterInitScene(w, sceneSuccess) ==
  IF sceneSuccess /\ w.exists THEN [w EXCEPT !.scenes = @ + 1] ELSE w

\* sceneSuccess: the backend's answer; outcome: what becomes of the process when
\* *bWorld_.get() is a null pointer (initScene before initPhysics)
initScene(meshGroup, sceneSuccess, outcome) ==
  /\ process = "running"
  /\ bWorld.scenes < MaxScenes
  /\ LET c == [Call("initScene") EXCEPT !.valid = MeshGroupValid(meshGroup),
                                         !.empty = (Len(meshGroup) = 0)]
         ub == ~bWorld.exists
     IN
     IF ~MeshGroupValid(meshGroup)
       THEN /\ lastCall' = [c EXCEPT !.ok = FALSE]
            /\ UNCHANGED managerVars
       ELSE IF ub /\ outcome = "crashed"
         THEN /\ lastCall' = [c EXCEPT !.ub = TRUE]
              /\ process' = outcome
              /\ UNCHANGED <<initialized, do_profile, total_frames, total_time,
                             fixedTimeStep, bWorld, physicsNode, dynamicObjects,
                             nextObjectID>>
         ELSE /\ lastCall' = [c EXCEPT !.invoked = TRUE, !.ok = sceneSuccess,
                                       !.ub = ub]
              /\ bWorld' = WorldAfterInitScene(bWorld, sceneSuccess)
              /\ process' = IF ub THEN outcome ELSE process
              /\ UNCHANGED <<initialized, do_profile, total_frames, total_time,
                             fixedTimeStep, physicsNode, dynamicObjects,
                             nextObjectID>>
  /\ UNCHANGED <<issued, removed, failed, validatorVars, attributeVars>>

----------------------------------------------------------------------------
(* PhysicsManager::initObject *)

\* a counter that is not advanced: the next object gets the same identity
ObjectIDAfterInitStuck(n, objectSuccess) == n

\* a counter advanced before the backend's answer is looked at
ObjectIDAfterInitEager(n, objectSuccess) == n + 1

\* nextObjectID_ after the call: if (!objectSuccess) return -1; ... nextObjectID_ += 1;
ObjectIDAfterInit(n, objectSuccess) ==
  IF ~objectSuccess THEN n ELSE n + 1

\* dynamicObjects_[nextObjectID_] = physObject;  (an existing entry is overwritten)
RegisterObject(objects, n, physObject) ==
  [k \in DOMAIN objects \cup {n} |-> IF k = n THEN physObject ELSE objects[k]]

\* a registration made before the backend's answer is looked at
ObjectsAfterInitEager(objects, n, physObject, objectSuccess) ==
  RegisterObject(objects, n, physObject)

\* the map after the call: nothing is registered when objectSuccess is false
ObjectsAfterInit(objects, n, physObject, objectSuccess) ==
  IF ~objectSuccess THEN objects ELSE RegisterObject(objects, n, physObject)

\* a result that is the counter after the increment: identities from 1
InitObjectResultOneBased(n, objectSuccess) ==
  IF ~objectSuccess THEN FailureID ELSE ObjectIDAfterInit(n, objectSuccess)

\* the value returned once the mesh group passed validation
InitObjectResult(n, objectSuccess) ==
  IF ~objectSuccess THEN FailureID ELSE ObjectIDAfterInit(n, objectSuccess) - 1

\* a mass taken from the configuration when there is one
ObjectMassConfiguredFirst(indexCount, configuredMass) ==
  IF configuredMass = <<>> THEN indexCount ELSE configuredMass[1]

\* float mass = meshGroup[0].indices.size() * 0.001f;  (in thousandths)
ObjectMass(indexCount, configuredMass) == indexCount

\* indexCount: meshGroup[0].indices.size(), whatever is read there when the group
\* is empty; configuredMass: the mass the object's attributes hold, which is no
\* argument of the call; objectSuccess: the backend's answer; outcome: what
\* becomes of the process when meshGroup[0] does not exist or *bWorld_.get() is
\* a null pointer
initObject(meshGroup, indexCount, configuredMass, objectSuccess, outcome) ==
  /\ process = "running"
  /\ nextObjectID < MaxObjects
  /\ LET c == [Call("initObject") EXCEPT !.valid = MeshGroupValid(meshGroup),
                                          !.empty = (Len(meshGroup) = 0)]
         ub == Len(meshGroup) = 0 \/ ~bWorld.exists
         res == InitObjectResult(nextObjectID, objectSuccess)
     IN
     IF ~MeshGroupValid(meshGroup)
       THEN /\ lastCall' = [c EXCEPT !.res = FalseAsInt]
            /\ failed' = failed \cup {FalseAsInt}
            /\ UNCHANGED <<managerVars, issued>>
       ELSE IF ub /\ outcome = "crashed"
         THEN /\ lastCall' = [c EXCEPT !.ub = TRUE]
              /\ process' = outcome
              /\ UNCHANGED <<initialized, do_profile, total_frames, total_time,
                             fixedTimeStep, bWorld, physicsNode, dynamicObjects,
                             nextObjectID, issued, failed>>
         ELSE /\ lastCall' = [c EXCEPT !.invoked = TRUE, !.ok = objectSuccess,
                                       !.ub = ub, !.res = res,
                                       !.mass = ObjectMass(indexCount,
                                                           configuredMass),
                                       !.indices = indexCount,
                                       !.configured = configuredMass]
              /\ dynamicObjects' = ObjectsAfterInit(dynamicObjects, nextObjectID,
                                                    NewObject, objectSuccess)
              /\ nextObjectID' = ObjectIDAfterInit(nextObjectID, objectSuccess)
              /\ issued' = IF objectSuccess THEN Append(issued, res) ELSE issued
              /\ failed' = IF objectSuccess THEN failed ELSE failed \cup {res}
              /\ process' = IF ub THEN outcome ELSE process
              /\ UNCHANGED <<initialized, do_profile, total_frames, total_time,
                             fixedTimeStep, bWorld, physicsNode>>
  /\ UNCHANGED <<removed, validatorVars, attributeVars>>

----------------------------------------------------------------------------
(* PhysicsManager::applyForce / applyImpulse *)

\* an identity is known when the map holds a body under it
KnownObject(objects, objectID) ==
  objectID \in DOMAIN objects /\ ~objects[objectID].null

\* the force and impulse calls queued on the bodies of `ids`
RECURSIVE PendingOn(_, _)
PendingOn(objects, ids) ==
  IF ids = {} THEN 0
  ELSE LET k == CHOOSE x \in ids : TRUE
       IN  objects[k].forces + objects[k].impulses + PendingOn(objects, ids \ {k})

PendingCalls(objects) == PendingOn(objects, DOMAIN objects)

\* a lookup that leaves the map alone (std::map::find)
LookupObjectFind(objects, objectID) == objects

\* physics::RigidObject* physObject = dynamicObjects_[objectID];
\* std::map::operator[] inserts a null pointer under a key it does not hold
LookupObject(objects, objectID) ==
  IF objectID \in DOMAIN objects
    THEN objects
    ELSE RegisterObject(objects, objectID, NullObject)

\* outcome: what becomes of the process after the call through a null pointer
applyForce(objectID, outcome) ==
  /\ process = "running"
  /\ LET objects == LookupObject(dynamicObjects, objectID)
         c == [Call("applyForce") EXCEPT !.id = objectID]
     IN
     IF objects[objectID].null
       THEN /\ dynamicObjects' = objects
            /\ process' = outcome
            /\ lastCall' = [c EXCEPT !.ub = TRUE]
       ELSE /\ PendingCalls(objects) < MaxPending
            /\ dynamicObjects' =
                 [objects EXCEPT ![objectID] = BodyApplyForce(@)]
            /\ lastCall' = [c EXCEPT !.ok = TRUE]
            /\ UNCHANGED process
  /\ UNCHANGED <<initialized, do_profile, total_frames, total_time,
                 fixedTimeStep, bWorld, physicsNode, nextObjectID,
                 issued, removed, failed, validatorVars, attributeVars>>

applyImpulse(objectID, outcome) ==
  /\ process = "running"
  /\ LET objects == LookupObject(dynamicObjects, objectID)
         c == [Call("applyImpulse") EXCEPT !.id = objectID]
     IN
     IF objects[objectID].null
       THEN /\ dynamicObjects' = objects
            /\ process' = outcome
            /\ lastCall' = [c EXCEPT !.ub = TRUE]
       ELSE /\ PendingCalls(objects) < MaxPending
            /\ dynamicObjects' =
                 [objects EXCEPT ![objectID] = BodyApplyImpulse(@)]
            /\ lastCall' = [c EXCEPT !.ok = TRUE]
            /\ UNCHANGED process
  /\ UNCHANGED <<initialized, do_profile, total_frames, total_time,
                 fixedTimeStep, bWorld, physicsNode, nextObjectID,
                 issued, removed, failed, validatorVars, attributeVars>>

----------------------------------------------------------------------------
(* PhysicsManager::removeObject (called by Viewer::removeLastObject) *)

\* the body is destroyed and its identity leaves the map; the counter is not
\* rolled back.  An unknown identity is refused and nothing changes.
removeObject(objectID) ==
  /\ process = "running"
  /\ IF KnownObject(dynamicObjects, objectID)
       THEN /\ dynamicObjects' =
                 [k \in DOMAIN dynamicObjects \ {objectID} |-> dynamicObjects[k]]
            /\ removed' = removed \cup {objectID}
            /\ lastCall' = [Call("removeObject") EXCEPT !.id = objectID,
                                                        !.ok = TRUE]
       ELSE /\ lastCall' = [Call("removeObject") EXCEPT
                              !.id = objectID, !.err = "UnknownObjectId"]
            /\ UNCHANGED <<dynamicObjects, removed>>
  /\ UNCHANGED <<initialized, do_profile, total_frames, total_time,
                 fixedTimeStep, bWorld, physicsNode, nextObjectID, process,
                 issued, failed, validatorVars, attributeVars>>

----------------------------------------------------------------------------
(* PhysicsManager::setTranslation *)

\* a translation added to the one the body has (translate), within Translations
BodyTranslated(b, vector) ==
  [b EXCEPT !.translation = (@ + vector) % Cardinality(Translations)]

\* the body's translation is overwritten; nothing else of the body changes
BodyAfterSetTranslation(b, vector) == [b EXCEPT !.translation = vector]

\* a direct pose write on the body of objectID; an unknown identity is refused
\* and nothing changes
setTranslation(objectID, vector) ==
  /\ process = "running"
  /\ LET c == [Call("setTranslation") EXCEPT
                 !.id = objectID, !.vec = vector,
                 !.repeat = /\ lastCall.op = "setTranslation"
                            /\ lastCall.ok
                            /\ lastCall.id = objectID
                            /\ lastCall.vec = vector]
     IN
     IF KnownObject(dynamicObjects, objectID)
       THEN /\ dynamicObjects' =
                 [dynamicObjects EXCEPT
                    ![objectID] = BodyAfterSetTranslation(@, vector)]
            /\ lastCall' = [c EXCEPT !.ok = TRUE]
       ELSE /\ lastCall' = [c EXCEPT !.err = "UnknownObjectId"]
            /\ UNCHANGED dynamicObjects
  /\ UNCHANGED <<initialized, do_profile, total_frames, total_time,
                 fixedTimeStep, bWorld, physicsNode, nextObjectID, process,
                 issued, removed, failed, validatorVars, attributeVars>>

\* the body is moved by the vector from where it is
BodyAfterTranslate(b, vector) == [b EXCEPT !.translation = @ + vector]

\* a pose write relative to the current one on the body of objectID, as long as
\* the result is one of Translations; an unknown identity is refused
translate(objectID, vector) ==
  /\ process = "running"
  /\ LET c == [Call("translate") EXCEPT !.id = objectID, !.vec = vector]
     IN
     IF KnownObject(dynamicObjects, objectID)
       THEN /\ dynamicObjects[objectID].translation + vector \in Translations
            /\ dynamicObjects' =
                 [dynamicObjects EXCEPT
                    ![objectID] = BodyAfterTranslate(@, vector)]
            /\ lastCall' = [c EXCEPT !.ok = TRUE]
       ELSE /\ lastCall' = [c EXCEPT !.err = "UnknownObjectId"]
            /\ UNCHANGED dynamicObjects
  /\ UNCHANGED <<initialized, do_profile, total_frames, total_time,
                 fixedTimeStep, bWorld, physicsNode, nextObjectID, process,
                 issued, removed, failed, validatorVars, attributeVars>>

----------------------------------------------------------------------------
(* PhysicsManager::stepPhysics *)

\* a step that does not look at initialized_
StepRunsAlways == TRUE

\* if(!initialized_) return;
StepRuns == initialized

\* a step that is skipped while the manager is profiled
SteppedWorldUnlessProfiled(w, dt) ==
  IF do_profile
    THEN [world |-> w, steps |-> 0, capped |-> FALSE]
    ELSE WorldStepSimulation(w, dt, maxSubSteps, fixedTimeStep)

\* a step that hands the backend no sub-step cap (one variable step of dt)
SteppedWorldUncapped(w, dt) == WorldStepSimulation(w, dt, 0, fixedTimeStep)

\* bWorld_->stepSimulation(timeline_.previousFrameDuration(), maxSubSteps_,
\*                         fixedTimeStep_);
SteppedWorld(w, dt) == WorldStepSimulation(w, dt, maxSubSteps, fixedTimeStep)

\* the backend divides the accumulated time by fixedTimeStep_: with a time step
\* of zero the sub-step count it computes is not defined
StepDefined == fixedTimeStep > 0

\* dt: timeline_.previousFrameDuration(); elapsed: the wall-clock time of the step;
\* outcome: what becomes of the process when the sub-step count is not defined
stepPhysics(dt, elapsed, outcome) ==
  /\ process = "running"
  /\ bWorld.time + bWorld.localTime < MaxWorldTime
  /\ total_frames < MaxFrames
  /\ IF ~StepRuns
       THEN /\ lastCall' = Call("stepPhysics")
            /\ UNCHANGED managerVars
       ELSE IF ~StepDefined
       THEN /\ process' = outcome
            /\ lastCall' = [Call("stepPhysics") EXCEPT !.ub = TRUE]
            /\ UNCHANGED <<initialized, do_profile, total_frames, total_time,
                           fixedTimeStep, bWorld, physicsNode, dynamicObjects,
                           nextObjectID>>
       ELSE /\ bWorld' = SteppedWorld(bWorld, dt).world
            /\ dynamicObjects' = BodiesAfterStep(dynamicObjects)
            /\ total_frames' = IF do_profile THEN total_frames + 1
                               ELSE total_frames
            /\ total_time' = IF do_profile THEN total_time + elapsed
                             ELSE total_time
            /\ lastCall' = [Call("stepPhysics") EXCEPT
                              !.ok = TRUE,
                              !.capped = SteppedWorld(bWorld, dt).capped,
                              !.applied = AppliedByStep(dynamicObjects,
                                                        DOMAIN dynamicObjects)]
            /\ UNCHANGED <<initialized, do_profile, fixedTimeStep, physicsNode,
                           nextObjectID, process>>
  /\ UNCHANGED <<issued, removed, failed, validatorVars, attributeVars>>

----------------------------------------------------------------------------
(* PhysicsManager::setTimestep *)

\* fixedTimeStep_ = dt;
setTimestep(dt) ==
  /\ process = "running"
  /\ fixedTimeStep' = dt
  /\ lastCall' = Call("setTimestep")
  /\ UNCHANGED <<initialized, do_profile, total_frames, total_time, bWorld,
                 physicsNode, dynamicObjects, nextObjectID, process,
                 issued, removed, failed, validatorVars, attributeVars>>

----------------------------------------------------------------------------
(* BulletPhysicsManager::setGravity / getGravity *)

\* bWorld_->setGravity(gravity): the world holds the vector from now on; what it
\* has simulated so far stays as it is
WorldAfterSetGravity(w, gravity) == [w EXCEPT !.gravity = gravity]

\* outcome: what becomes of the process when bWorld_ is a null pointer
setGravity(gravity, outcome) ==
  /\ process = "running"
  /\ IF ~bWorld.exists
       THEN /\ process' = outcome
            /\ lastCall' = [Call("setGravity") EXCEPT !.ub = TRUE]
            /\ UNCHANGED bWorld
       ELSE /\ bWorld' = WorldAfterSetGravity(bWorld, gravity)
            /\ lastCall' = [Call("setGravity") EXCEPT !.ok = TRUE,
                                                      !.gravity = gravity]
            /\ UNCHANGED process
  /\ UNCHANGED <<initialized, do_profile, total_frames, total_time,
                 fixedTimeStep, physicsNode, dynamicObjects, nextObjectID,
                 issued, removed, failed, validatorVars, attributeVars>>

\* return bWorld_->getGravity();
getGravity(outcome) ==
  /\ process = "running"
  /\ IF ~bWorld.exists
       THEN /\ process' = outcome
            /\ lastCall' = [Call("getGravity") EXCEPT !.ub = TRUE]
       ELSE /\ lastCall' = [Call("getGravity") EXCEPT !.ok = TRUE,
                                                      !.gravity = bWorld.gravity]
            /\ UNCHANGED process
  /\ UNCHANGED <<initialized, do_profile, total_frames, total_time,
                 fixedTimeStep, bWorld, physicsNode, dynamicObjects,
                 nextObjectID, issued, removed, failed, validatorVars,
                 attributeVars>>

----------------------------------------------------------------------------
(* PhysicsManager::nextFrame and checkActiveObjects *)

\* if (physicsNode == nullptr) return;  if(!initialized_) return;
CensusRuns == physicsNode /\ initialized

\* numTotal: the children of physicsNode that are RigidObjects
CensusTotal(objects) == Cardinality({k \in DOMAIN objects : ~objects[k].null})

\* timeline_.nextFrame(); checkActiveObjects();  The timeline keeps the duration
\* of the frame, which stepPhysics reads as dt; the census counts into two
\* local variables and writes to no member.
nextFrame ==
  /\ process = "running"
  /\ lastCall' = IF CensusRuns
                   THEN [Call("nextFrame") EXCEPT
                           !.ok = TRUE, !.res = CensusTotal(dynamicObjects)]
                   ELSE Call("nextFrame")
  /\ UNCHANGED <<managerVars, issued, removed, failed, validatorVars,
                 attributeVars>>

----------------------------------------------------------------------------
(* The calls a caller can make, each with every input of its domain *)

DoInitPhysics ==
  /\ \E g \in Gravities, p \in BOOLEAN : initPhysics(g, p)
  /\ UNCHANGED <<replayVars, viewerVars>>

DoInitScene ==
  /\ \E m \in ManagerMeshGroups, ok \in BOOLEAN :
       \E o \in OutcomesWhen(~bWorld.exists) : initScene(m, ok, o)
  /\ UNCHANGED <<replayVars, viewerVars>>

DoInitObject ==
  /\ \E m \in ManagerMeshGroups, ok \in BOOLEAN :
       \E n \in IndexCountsOf(m), c \in ConfiguredMasses,
          o \in OutcomesWhen(Len(m) = 0 \/ ~bWorld.exists) :
         initObject(m, n, c, ok, o)
  /\ UNCHANGED <<replayVars, viewerVars>>

DoApplyForce ==
  /\ \E id \in ObjectIDs :
       \E o \in OutcomesWhen(~KnownObject(dynamicObjects, id)) :
         applyForce(id, o)
  /\ UNCHANGED <<replayVars, viewerVars>>

DoApplyImpulse ==
  /\ \E id \in ObjectIDs :
       \E o \in OutcomesWhen(~KnownObject(dynamicObjects, id)) :
         applyImpulse(id, o)
  /\ UNCHANGED <<replayVars, viewerVars>>

DoRemoveObject ==
  /\ \E id \in ObjectIDs : removeObject(id)
  /\ UNCHANGED <<replayVars, viewerVars>>

DoStepPhysics ==
  /\ \E dt \in DtValues, e \in ElapsedValues :
       \E o \in OutcomesWhen(StepRuns /\ ~StepDefined) : stepPhysics(dt, e, o)
  /\ UNCHANGED <<replayVars, viewerVars>>

\* BulletPhysicsManager::stepPhysics called without an argument: the default
\* reaches the backend as it is, or the fixed time step is taken in its place.
\* Made when the world owes no time, so that what it owes stays bounded.
DefaultStepDts == {DefaultDt, fixedTimeStep}

DoStepDefault ==
  /\ bWorld.localTime >= 0
  /\ \E dt \in DefaultStepDts, e \in ElapsedValues :
       \E o \in OutcomesWhen(StepRuns /\ ~StepDefined) : stepPhysics(dt, e, o)
  /\ UNCHANGED <<replayVars, viewerVars>>

DoSetTimestep ==
  /\ \E dt \in TimestepValues : setTimestep(dt)
  /\ UNCHANGED <<replayVars, viewerVars>>

DoNextFrame ==
  /\ nextFrame
  /\ UNCHANGED <<replayVars, viewerVars>>

DoSetGravity ==
  /\ \E g \in Gravities :
       \E o \in OutcomesWhen(~bWorld.exists) : setGravity(g, o)
  /\ UNCHANGED <<replayVars, viewerVars>>

DoSetTranslation ==
  /\ \E id \in ObjectIDs, v \in Translations : setTranslation(id, v)
  /\ UNCHANGED <<replayVars, viewerVars>>

DoGetGravity ==
  /\ \E o \in OutcomesWhen(~bWorld.exists) : getGravity(o)
  /\ UNCHANGED <<replayVars, viewerVars>>

----------------------------------------------------------------------------
(* The registry: the world, the scene and the objects, without the clock *)

Next ==
  \/ DoInitPhysics
  \/ DoInitScene
  \/ DoInitObject
  \/ DoApplyForce
  \/ DoApplyImpulse
  \/ DoRemoveObject

Spec == Init /\ [][Next]_vars

----------------------------------------------------------------------------
(* The clock: the world, the time step and the stepping *)

NextClock ==
  \/ DoInitPhysics
  \/ DoStepPhysics
  \/ DoSetTimestep

SpecClock == Init /\ [][NextClock]_vars

----------------------------------------------------------------------------
(* The frame loop: forces and impulses on the objects, the step, the frame *)

NextLoop ==
  \/ DoInitPhysics
  \/ DoInitObject
  \/ DoApplyForce
  \/ DoApplyImpulse
  \/ DoStepPhysics
  \/ DoNextFrame

SpecLoop == Init /\ [][NextLoop]_vars

----------------------------------------------------------------------------
(* Gravity: the world, the gravity it holds and the stepping *)

NextGravity ==
  \/ DoInitPhysics
  \/ DoSetGravity
  \/ DoGetGravity
  \/ DoStepPhysics

SpecGravity == Init /\ [][NextGravity]_vars

----------------------------------------------------------------------------
(* Kinematics: the objects and the pose written on them *)

NextKinematic ==
  \/ DoInitPhysics
  \/ DoInitObject
  \/ DoSetTranslation
  \/ DoRemoveObject

SpecKinematic == Init /\ [][NextKinematic]_vars

----------------------------------------------------------------------------
(* World time: every call that is made while the world is stepped *)

NextTime ==
  \/ DoInitPhysics
  \/ DoStepPhysics
  \/ DoStepDefault
  \/ DoSetTimestep
  \/ DoSetGravity
  \/ DoNextFrame

SpecTime == Init /\ [][NextTime]_vars

----------------------------------------------------------------------------
(* The viewer's key events: the list of identities it keeps, objectIDs *)

\* objectIDs.back()
Back(ids) == ids[Len(ids)]

\* objectIDs.pop_back();
PopBack(ids) == SubSeq(ids, 1, Len(ids) - 1)

\* objectIDs.push_back(physObjectID);  (whatever addObject returned)
PushBack(ids, physObjectID) == Append(ids, physObjectID)

\* int physObjectID = physicsManager_->addObject(configFile, &drawables);
\* the value initObject returns for the object's mesh group
AddObjectResult(meshGroup, n, objectSuccess) ==
  IF ~MeshGroupValid(meshGroup)
    THEN FalseAsInt
    ELSE InitObjectResult(n, objectSuccess)

\* the registry after that addObject
ObjectsAfterAddObject(objects, meshGroup, n, objectSuccess) ==
  IF ~MeshGroupValid(meshGroup)
    THEN objects
    ELSE ObjectsAfterInit(objects, n, NewObject, objectSuccess)

\* physicsManager_->setTranslation(physObjectID, new_pos); on the registry
ObjectsAfterSetTranslation(objects, objectID, vector) ==
  IF KnownObject(objects, objectID)
    THEN [objects EXCEPT ![objectID] = BodyAfterSetTranslation(@, vector)]
    ELSE objects

\* Viewer::addObject: addObject, then setTranslation and setRotation on what
\* it returned, then push_back of what it returned.  The arguments are those
\* of initObject, and vector is the position in front of the camera.
ViewerAddObject(meshGroup, indexCount, configuredMass, objectSuccess, outcome, vector) ==
  /\ process = "running"
  /\ nextObjectID < MaxObjects
  /\ Len(objectIDs) < MaxObjectIDs
  /\ LET valid == MeshGroupValid(meshGroup)
         ub == valid /\ (Len(meshGroup) = 0 \/ ~bWorld.exists)
         ok == valid /\ objectSuccess
         physObjectID == AddObjectResult(meshGroup, nextObjectID, objectSuccess)
         added == ObjectsAfterAddObject(dynamicObjects, meshGroup, nextObjectID,
                                        objectSuccess)
         c == [Call("addObject") EXCEPT !.valid = valid,
                                        !.empty = (Len(meshGroup) = 0),
                                        !.ub = ub]
     IN
     IF ub /\ outcome = "crashed"
       THEN /\ lastCall' = c
            /\ process' = outcome
            /\ UNCHANGED <<dynamicObjects, nextObjectID, issued, failed,
                           objectIDs>>
       ELSE /\ dynamicObjects' =
                 ObjectsAfterSetTranslation(added, physObjectID, vector)
            /\ nextObjectID' = IF valid
                                 THEN ObjectIDAfterInit(nextObjectID,
                                                        objectSuccess)
                                 ELSE nextObjectID
            /\ issued' = IF ok THEN Append(issued, physObjectID) ELSE issued
            /\ failed' = IF ok THEN failed ELSE failed \cup {physObjectID}
            /\ objectIDs' = PushBack(objectIDs, physObjectID)
            /\ process' = IF ub THEN outcome ELSE process
            /\ lastCall' = [c EXCEPT !.invoked = valid, !.ok = ok,
                                     !.res = physObjectID, !.id = physObjectID,
                                     !.vec = vector, !.kinematic = TRUE,
                                     !.mass = ObjectMass(indexCount,
                                                         configuredMass),
                                     !.indices = indexCount,
                                     !.configured = configuredMass]
  /\ UNCHANGED <<initialized, do_profile, total_frames, total_time,
                 fixedTimeStep, bWorld, physicsNode, removed, validatorVars,
                 attributeVars, replayVars>>

\* Viewer::removeLastObject: nothing on an empty list
ViewerRemoveLastObject ==
  /\ objectIDs # <<>>
  /\ removeObject(Back(objectIDs))
  /\ objectIDs' = PopBack(objectIDs)
  /\ UNCHANGED replayVars

\* Viewer::pokeLastObject: nothing on an empty list
ViewerPokeLastObject ==
  /\ objectIDs # <<>>
  /\ \E o \in OutcomesWhen(~KnownObject(dynamicObjects, Back(objectIDs))) :
       applyImpulse(Back(objectIDs), o)
  /\ UNCHANGED <<objectIDs, replayVars>>

\* Viewer::pushLastObject: nothing on an empty list
ViewerPushLastObject ==
  /\ objectIDs # <<>>
  /\ \E o \in OutcomesWhen(~KnownObject(dynamicObjects, Back(objectIDs))) :
       applyForce(Back(objectIDs), o)
  /\ UNCHANGED <<objectIDs, replayVars>>

\* Viewer::wiggleLastObject: nothing on an empty list
ViewerWiggleLastObject ==
  /\ objectIDs # <<>>
  /\ \E v \in Translations \ {0} : translate(Back(objectIDs), v)
  /\ UNCHANGED <<objectIDs, replayVars>>

\* the key event that adds an object, with every object the resource manager
\* may hand over and every answer of the backend
DoViewerAddObject ==
  \E m \in ManagerMeshGroups, ok \in BOOLEAN, v \in Translations \ {0} :
    \E n \in IndexCountsOf(m), c \in ConfiguredMasses,
       o \in OutcomesWhen(Len(m) = 0 \/ ~bWorld.exists) :
      ViewerAddObject(m, n, c, ok, o, v)

NextViewer ==
  \/ DoInitPhysics
  \/ DoViewerAddObject
  \/ ViewerRemoveLastObject
  \/ ViewerPokeLastObject
  \/ ViewerPushLastObject
  \/ ViewerWiggleLastObject

SpecViewer == Init /\ [][NextViewer]_vars

----------------------------------------------------------------------------
(* The validator on its own: every mesh group up to MaxMeshLen is judged *)

InitValidator ==
  /\ initialized = FALSE
  /\ do_profile = FALSE
  /\ total_frames = 0
  /\ total_time = 0
  /\ fixedTimeStep = DefaultFixedTimeStep
  /\ bWorld = NoWorld
  /\ physicsNode = FALSE
  /\ dynamicObjects = [k \in {} |-> NullObject]
  /\ nextObjectID = 0
  /\ process = "running"
  /\ lastCall = NoCall
  /\ issued = <<>>
  /\ removed = {}
  /\ failed = {}
  /\ vGroup \in MeshGroups
  /\ vResult = "none"
  /\ InitAttributes
  /\ InitReplay
  /\ objectIDs = <<>>

ValidateGroup ==
  /\ vResult = "none"
  /\ vResult' = IF MeshGroupValid(vGroup) THEN "accepted" ELSE "rejected"
  /\ UNCHANGED <<vGroup, managerVars, historyVars, attributeVars, replayVars,
                 viewerVars>>

NextValidator == ValidateGroup

SpecValidator == InitValidator /\ [][NextValidator]_vars

----------------------------------------------------------------------------
(* esp::assets::Attributes: five maps from names to values, one per type *)

\* enum DataType
DataTypes == {"DOUBLE", "INT", "STRING", "MAGNUMVEC3", "VEC_STRINGS"}

\* names and values the callers use
Keys == {"x", "y"}
DoubleValues == {"1.0", "2.0"}
IntValues == {"100"}
StringValues == {"a"}
Vec3Values == {"(0,-9.8,0)"}
VecStringsValues == {<<"a">>}
Items == {"a", "b"}

\* map[key] = val;
Put(map, key, val) ==
  [k \in DOMAIN map \cup {key} |-> IF k = key THEN val ELSE map[k]]

\* map.erase(key);
Erase(map, key) == [k \in DOMAIN map \ {key} |-> map[k]]

\* map.count(key) > 0
Holds(map, key) == key \in DOMAIN map

\* the map of partition t
Partition(t) ==
  CASE t = "DOUBLE" -> doubleMap
    [] t = "INT" -> intMap
    [] t = "STRING" -> stringMap
    [] t = "MAGNUMVEC3" -> magnumVec3Map
    [] t = "VEC_STRINGS" -> vecStringsMap

\* Attributes::exists: true if any container has the key
exists(key) ==
  IF Holds(doubleMap, key) THEN TRUE
  ELSE IF Holds(intMap, key) THEN TRUE
  ELSE IF Holds(stringMap, key) THEN TRUE
  ELSE IF Holds(magnumVec3Map, key) THEN TRUE
  ELSE IF Holds(vecStringsMap, key) THEN TRUE
  ELSE FALSE

\* a lookup of the type that searches every container
existsAsAny(t, key) == exists(key)

\* Attributes::existsAs: true if the container of type t has the key
existsAs(t, key) ==
  IF t = "DOUBLE" /\ Holds(doubleMap, key) THEN TRUE
  ELSE IF t = "INT" /\ Holds(intMap, key) THEN TRUE
  ELSE IF t = "STRING" /\ Holds(stringMap, key) THEN TRUE
  ELSE IF t = "MAGNUMVEC3" /\ Holds(magnumVec3Map, key) THEN TRUE
  ELSE IF t = "VEC_STRINGS" /\ Holds(vecStringsMap, key) THEN TRUE
  ELSE FALSE

\* a count that stops at the first container found
countFirst(key) == IF exists(key) THEN 1 ELSE 0

\* Attributes::count: the number of containers with the key
count(key) ==
  (IF Holds(doubleMap, key) THEN 1 ELSE 0)
  + (IF Holds(intMap, key) THEN 1 ELSE 0)
  + (IF Holds(stringMap, key) THEN 1 ELSE 0)
  + (IF Holds(magnumVec3Map, key) THEN 1 ELSE 0)
  + (IF Holds(vecStringsMap, key) THEN 1 ELSE 0)

\* the three queries as calls: each returns its answer and leaves the maps alone
CallExists(key) ==
  /\ lastAttr' = [AttrCall("exists", "none", key) EXCEPT !.flag = exists(key)]
  /\ UNCHANGED <<storeVars, managerVars, historyVars, validatorVars, replayVars,
                 viewerVars>>

CallExistsAs(t, key) ==
  /\ lastAttr' = [AttrCall("existsAs", t, key) EXCEPT !.flag = existsAs(t, key)]
  /\ UNCHANGED <<storeVars, managerVars, historyVars, validatorVars, replayVars,
                 viewerVars>>

CallCount(key) ==
  /\ lastAttr' = [AttrCall("count", "none", key) EXCEPT !.num = count(key)]
  /\ UNCHANGED <<storeVars, managerVars, historyVars, validatorVars, replayVars,
                 viewerVars>>

\* an erase that empties the container
EraseEverything(map, key) == EmptyMap

\* if (map.count(key) > 0) map.erase(key);
EraseIfHeld(map, key) == IF Holds(map, key) THEN Erase(map, key) ELSE map

\* Attributes::eraseAll: erase the key from all maps
eraseAll(key) ==
  /\ doubleMap' = EraseIfHeld(doubleMap, key)
  /\ intMap' = EraseIfHeld(intMap, key)
  /\ stringMap' = EraseIfHeld(stringMap, key)
  /\ magnumVec3Map' = EraseIfHeld(magnumVec3Map, key)
  /\ vecStringsMap' = EraseIfHeld(vecStringsMap, key)
  /\ lastAttr' = AttrCall("eraseAll", "none", key)
  /\ UNCHANGED <<managerVars, historyVars, validatorVars, replayVars,
                 viewerVars>>

\* Attributes::eraseAs: erase the key from the map of type t
eraseAs(t, key) ==
  /\ doubleMap' = IF t = "DOUBLE" THEN EraseIfHeld(doubleMap, key)
                  ELSE doubleMap
  /\ intMap' = IF t = "INT" THEN EraseIfHeld(intMap, key) ELSE intMap
  /\ stringMap' = IF t = "STRING" THEN EraseIfHeld(stringMap, key)
                  ELSE stringMap
  /\ magnumVec3Map' = IF t = "MAGNUMVEC3" THEN EraseIfHeld(magnumVec3Map, key)
                      ELSE magnumVec3Map
  /\ vecStringsMap' = IF t = "VEC_STRINGS" THEN EraseIfHeld(vecStringsMap, key)
                      ELSE vecStringsMap
  /\ lastAttr' = AttrCall("eraseAs", t, key)
  /\ UNCHANGED <<managerVars, historyVars, validatorVars, replayVars,
                 viewerVars>>

\* Attributes::clear: clear all maps
clear ==
  /\ doubleMap' = EmptyMap
  /\ intMap' = EmptyMap
  /\ stringMap' = EmptyMap
  /\ magnumVec3Map' = EmptyMap
  /\ vecStringsMap' = EmptyMap
  /\ lastAttr' = AttrCall("clear", "none", "")
  /\ UNCHANGED <<managerVars, historyVars, validatorVars, replayVars,
                 viewerVars>>

\* Attributes::clearAs: clear the map of type t
clearAs(t) ==
  /\ doubleMap' = IF t = "DOUBLE" THEN EmptyMap ELSE doubleMap
  /\ intMap' = IF t = "INT" THEN EmptyMap ELSE intMap
  /\ stringMap' = IF t = "STRING" THEN EmptyMap ELSE stringMap
  /\ magnumVec3Map' = IF t = "MAGNUMVEC3" THEN EmptyMap ELSE magnumVec3Map
  /\ vecStringsMap' = IF t = "VEC_STRINGS" THEN EmptyMap ELSE vecStringsMap
  /\ lastAttr' = AttrCall("clearAs", t, "")
  /\ UNCHANGED <<managerVars, historyVars, validatorVars, replayVars,
                 viewerVars>>

\* a read through operator[]: an absent key is inserted with a default value
MapAfterIndex(map, key, default) ==
  IF Holds(map, key) THEN map ELSE Put(map, key, default)

\* map.at(key) leaves the map as it is, whether it holds the key or not
MapAfterAt(map, key, default) == map

\* a write that keeps the value a key already has
PutIfAbsent(map, key, val) == IF Holds(map, key) THEN map ELSE Put(map, key, val)

\* map[key] = val: the entry is inserted, or overwritten when the key is held
MapAfterSet(map, key, val) == Put(map, key, val)

\* Attributes::getDouble: return doubleMap_.at(key); at() throws std::out_of_range when
\* the key is not in the map
getDouble(key) ==
  /\ doubleMap' = MapAfterAt(doubleMap, key, "")
  /\ lastAttr' = IF Holds(doubleMap, key)
                   THEN [AttrCall("getDouble", "DOUBLE", key) EXCEPT
                           !.val = doubleMap[key]]
                   ELSE [AttrCall("getDouble", "DOUBLE", key) EXCEPT
                           !.err = "KeyNotFound"]
  /\ UNCHANGED <<intMap, stringMap, magnumVec3Map, vecStringsMap, managerVars, historyVars, validatorVars, replayVars,
                 viewerVars>>

\* Attributes::setDouble: doubleMap_[key] = val;
setDouble(key, val) ==
  /\ doubleMap' = MapAfterSet(doubleMap, key, val)
  /\ lastAttr' = [AttrCall("setDouble", "DOUBLE", key) EXCEPT !.val = val]
  /\ UNCHANGED <<intMap, stringMap, magnumVec3Map, vecStringsMap, managerVars, historyVars, validatorVars, replayVars,
                 viewerVars>>

\* Attributes::getInt: return intMap_.at(key); at() throws std::out_of_range when
\* the key is not in the map
getInt(key) ==
  /\ intMap' = MapAfterAt(intMap, key, "")
  /\ lastAttr' = IF Holds(intMap, key)
                   THEN [AttrCall("getInt", "INT", key) EXCEPT
                           !.val = intMap[key]]
                   ELSE [AttrCall("getInt", "INT", key) EXCEPT
                           !.err = "KeyNotFound"]
  /\ UNCHANGED <<doubleMap, stringMap, magnumVec3Map, vecStringsMap, managerVars, historyVars, validatorVars, replayVars,
                 viewerVars>>

\* Attributes::setInt: intMap_[key] = val;
setInt(key, val) ==
  /\ intMap' = MapAfterSet(intMap, key, val)
  /\ lastAttr' = [AttrCall("setInt", "INT", key) EXCEPT !.val = val]
  /\ UNCHANGED <<doubleMap, stringMap, magnumVec3Map, vecStringsMap, managerVars, historyVars, validatorVars, replayVars,
                 viewerVars>>

\* Attributes::getString: return stringMap_.at(key); at() throws std::out_of_range when
\* the key is not in the map
getString(key) ==
  /\ stringMap' = MapAfterAt(stringMap, key, "")
  /\ lastAttr' = IF Holds(stringMap, key)
                   THEN [AttrCall("getString", "STRING", key) EXCEPT
                           !.val = stringMap[key]]
                   ELSE [AttrCall("getString", "STRING", key) EXCEPT
                           !.err = "KeyNotFound"]
  /\ UNCHANGED <<doubleMap, intMap, magnumVec3Map, vecStringsMap, managerVars, historyVars, validatorVars, replayVars,
                 viewerVars>>

\* Attributes::setString: stringMap_[key] = val;
setString(key, val) ==
  /\ stringMap' = MapAfterSet(stringMap, key, val)
  /\ lastAttr' = [AttrCall("setString", "STRING", key) EXCEPT !.val = val]
  /\ UNCHANGED <<doubleMap, intMap, magnumVec3Map, vecStringsMap, managerVars, historyVars, validatorVars, replayVars,
                 viewerVars>>

\* Attributes::getMagnumVec3: return magnumVec3Map_.at(key); at() throws std::out_of_range when
\* the key is not in the map
getMagnumVec3(key) ==
  /\ magnumVec3Map' = MapAfterAt(magnumVec3Map, key, "")
  /\ lastAttr' = IF Holds(magnumVec3Map, key)
                   THEN [AttrCall("getMagnumVec3", "MAGNUMVEC3", key) EXCEPT
                           !.val = magnumVec3Map[key]]
                   ELSE [AttrCall("getMagnumVec3", "MAGNUMVEC3", key) EXCEPT
                           !.err = "KeyNotFound"]
  /\ UNCHANGED <<doubleMap, intMap, stringMap, vecStringsMap, managerVars, historyVars, validatorVars, replayVars,
                 viewerVars>>

\* Attributes::setMagnumVec3: magnumVec3Map_[key] = val;
setMagnumVec3(key, val) ==
  /\ magnumVec3Map' = MapAfterSet(magnumVec3Map, key, val)
  /\ lastAttr' = [AttrCall("setMagnumVec3", "MAGNUMVEC3", key) EXCEPT !.val = val]
  /\ UNCHANGED <<doubleMap, intMap, stringMap, vecStringsMap, managerVars, historyVars, validatorVars, replayVars,
                 viewerVars>>

\* Attributes::getVecStrings: return vecStringsMap_.at(key); at() throws std::out_of_range when
\* the key is not in the map
getVecStrings(key) ==
  /\ vecStringsMap' = MapAfterAt(vecStringsMap, key, <<>>)
  /\ lastAttr' = IF Holds(vecStringsMap, key)
                   THEN [AttrCall("getVecStrings", "VEC_STRINGS", key) EXCEPT
                           !.list = vecStringsMap[key]]
                   ELSE [AttrCall("getVecStrings", "VEC_STRINGS", key) EXCEPT
                           !.err = "KeyNotFound"]
  /\ UNCHANGED <<doubleMap, intMap, stringMap, magnumVec3Map, managerVars, historyVars, validatorVars, replayVars,
                 viewerVars>>

\* Attributes::setVecStrings: vecStringsMap_[key] = val;
setVecStrings(key, val) ==
  /\ vecStringsMap' = MapAfterSet(vecStringsMap, key, val)
  /\ lastAttr' = [AttrCall("setVecStrings", "VEC_STRINGS", key) EXCEPT !.list = val]
  /\ UNCHANGED <<doubleMap, intMap, stringMap, magnumVec3Map, managerVars, historyVars, validatorVars, replayVars,
                 viewerVars>>

\* vecStringsMap_[key]: the list held under key, an empty one when there is none
ListAt(map, key) == IF Holds(map, key) THEN map[key] ELSE <<>>

\* an item put in front of the list
ListAfterPrepend(list, val) == <<val>> \o list

\* list.push_back(val)
ListAfterAppend(list, val) == Append(list, val)

\* Attributes::appendVecStrings: vecStringsMap_[key].push_back(val);
appendVecStrings(key, val) ==
  /\ Len(ListAt(vecStringsMap, key)) < MaxListLen
  /\ vecStringsMap' =
       Put(vecStringsMap, key, ListAfterAppend(ListAt(vecStringsMap, key), val))
  /\ lastAttr' = [AttrCall("appendVecStrings", "VEC_STRINGS", key) EXCEPT
                    !.val = val,
                    !.list = ListAt(vecStringsMap, key)]
  /\ UNCHANGED <<doubleMap, intMap, stringMap, magnumVec3Map, managerVars,
                 historyVars, validatorVars, replayVars,
                 viewerVars>>

\* the list without the first item equal to val
RECURSIVE RemoveFirst(_, _)
RemoveFirst(list, val) ==
  IF list = <<>> THEN <<>>
  ELSE IF Head(list) = val THEN Tail(list)
  ELSE <<Head(list)>> \o RemoveFirst(Tail(list), val)

\* the list without any item equal to val
RECURSIVE RemoveEvery(_, _)
RemoveEvery(list, val) ==
  IF list = <<>> THEN <<>>
  ELSE IF Head(list) = val THEN RemoveEvery(Tail(list), val)
  ELSE <<Head(list)>> \o RemoveEvery(Tail(list), val)

\* the policies a removal may follow, and what a removal from an absent list
\* may report
RemovePolicies == {"first", "all"}
RemoveErrors == {"none", "KeyNotFound"}

\* Attributes::removeFromVecString (called by Viewer::testAttributes): the item
\* leaves the list under key, its first occurrence or every occurrence
removeFromVecString(key, val, policy, absent) ==
  /\ vecStringsMap' =
       IF ~Holds(vecStringsMap, key) THEN vecStringsMap
       ELSE Put(vecStringsMap, key,
                IF policy = "first" THEN RemoveFirst(vecStringsMap[key], val)
                ELSE RemoveEvery(vecStringsMap[key], val))
  /\ lastAttr' = [AttrCall("removeFromVecString", "VEC_STRINGS", key) EXCEPT
                    !.val = val,
                    !.list = ListAt(vecStringsMap, key),
                    !.err = IF Holds(vecStringsMap, key) THEN "none" ELSE absent]
  /\ UNCHANGED <<doubleMap, intMap, stringMap, magnumVec3Map, managerVars,
                 historyVars, validatorVars, replayVars,
                 viewerVars>>

----------------------------------------------------------------------------
(* The attribute store: every call on the five maps *)

DoQuery ==
  \/ \E k \in Keys : CallExists(k)
  \/ \E t \in DataTypes, k \in Keys : CallExistsAs(t, k)
  \/ \E k \in Keys : CallCount(k)

DoErase ==
  \/ \E k \in Keys : eraseAll(k)
  \/ \E t \in DataTypes, k \in Keys : eraseAs(t, k)

DoClear ==
  \/ clear
  \/ \E t \in DataTypes : clearAs(t)

DoGet ==
  \/ \E k \in Keys : getDouble(k)
  \/ \E k \in Keys : getInt(k)
  \/ \E k \in Keys : getString(k)
  \/ \E k \in Keys : getMagnumVec3(k)
  \/ \E k \in Keys : getVecStrings(k)

DoSet ==
  \/ \E k \in Keys, v \in DoubleValues : setDouble(k, v)
  \/ \E k \in Keys, v \in IntValues : setInt(k, v)
  \/ \E k \in Keys, v \in StringValues : setString(k, v)
  \/ \E k \in Keys, v \in Vec3Values : setMagnumVec3(k, v)
  \/ \E k \in Keys, v \in VecStringsValues : setVecStrings(k, v)

NextAttributes ==
  \/ DoQuery
  \/ DoErase
  \/ DoClear
  \/ DoGet
  \/ DoSet

SpecAttributes == Init /\ [][NextAttributes]_vars

----------------------------------------------------------------------------
(* The list partition: lists of up to MaxListLen items *)

DoAppend == \E k \in Keys, v \in Items : appendVecStrings(k, v)

DoRemove ==
  \E k \in Keys, v \in Items, p \in RemovePolicies, a \in RemoveErrors :
    removeFromVecString(k, v, p, a)

DoListErase == \E k \in Keys : eraseAs("VEC_STRINGS", k)

DoListGet == \E k \in Keys : getVecStrings(k)

NextStrings ==
  \/ DoAppend
  \/ DoRemove
  \/ DoListErase
  \/ DoListGet

SpecStrings == Init /\ [][NextStrings]_vars

----------------------------------------------------------------------------
(* Two managers driven by the same calls, one profiled and one not: the     *)
(* first manager is driven and its calls are written down, then a second    *)
(* manager is constructed and driven by the same calls, each initPhysics    *)
(* with the other do_profile argument                                       *)

\* what a manager simulates with: everything but the profiling members
SimState ==
  [initialized |-> initialized, fixedTimeStep |-> fixedTimeStep,
   bWorld |-> bWorld, physicsNode |-> physicsNode,
   dynamicObjects |-> dynamicObjects, nextObjectID |-> nextObjectID,
   process |-> process]

\* the calls of a script, with their arguments
ScriptCalls ==
  [op : {"initPhysics"}, gravity : Gravities, profile : BOOLEAN,
   ok : {TRUE}, id : {0}, dt : {0}]
  \cup [op : {"initObject"}, gravity : {"none"}, profile : {FALSE},
        ok : BOOLEAN, id : {0}, dt : {0}]
  \cup [op : {"applyForce", "applyImpulse"}, gravity : {"none"},
        profile : {FALSE}, ok : {TRUE}, id : {0}, dt : {0}]
  \cup [op : {"stepPhysics"}, gravity : {"none"}, profile : {FALSE},
        ok : {TRUE}, id : {0}, dt : DtValues]
  \cup [op : {"setTimestep"}, gravity : {"none"}, profile : {FALSE},
        ok : {TRUE}, id : {0}, dt : TimestepValues \ {0}]
  \cup [op : {"nextFrame"}, gravity : {"none"}, profile : {FALSE},
        ok : {TRUE}, id : {0}, dt : {0}]

\* the call made on a manager: elapsed is the wall-clock time a step takes and
\* outcome what becomes of the process after undefined behaviour
Make(call, profile, elapsed, outcome) ==
  \/ /\ call.op = "initPhysics"
     /\ initPhysics(call.gravity, profile)
  \/ /\ call.op = "initObject"
     /\ initObject(<<"Triangles">>, 3, <<DefaultMass>>, call.ok, outcome)
  \/ /\ call.op = "applyForce"
     /\ applyForce(call.id, outcome)
  \/ /\ call.op = "applyImpulse"
     /\ applyImpulse(call.id, outcome)
  \/ /\ call.op = "stepPhysics"
     /\ stepPhysics(call.dt, elapsed, outcome)
  \/ /\ call.op = "setTimestep"
     /\ setTimestep(call.dt)
  \/ /\ call.op = "nextFrame"
     /\ nextFrame

\* a call on the first manager
DriveFirst ==
  /\ driven = 1
  /\ Len(script) < MaxScript
  /\ \E call \in ScriptCalls, e \in ElapsedValues, o \in UBOutcomes :
       /\ Make(call, call.profile, e, o)
       /\ script' = Append(script, call)
  /\ trace' = Append(trace, [sim |-> SimState', call |-> lastCall',
                             frames |-> total_frames'])
  /\ UNCHANGED <<driven, pos, viewerVars>>

\* the second manager is constructed
ConstructSecond ==
  /\ driven = 1
  /\ script # <<>>
  /\ driven' = 2
  /\ initialized' = FALSE
  /\ do_profile' = FALSE
  /\ total_frames' = 0
  /\ total_time' = 0
  /\ fixedTimeStep' = DefaultFixedTimeStep
  /\ bWorld' = NoWorld
  /\ physicsNode' = FALSE
  /\ dynamicObjects' = [k \in {} |-> NullObject]
  /\ nextObjectID' = 0
  /\ process' = "running"
  /\ lastCall' = NoCall
  /\ issued' = <<>>
  /\ removed' = {}
  /\ failed' = {}
  /\ UNCHANGED <<script, trace, pos, validatorVars, attributeVars, viewerVars>>

\* the next call of the script on the second manager, profiled when the first
\* manager was not and the other way round
DriveSecond ==
  /\ driven = 2
  /\ pos < Len(script)
  /\ \E e \in ElapsedValues, o \in UBOutcomes :
       Make(script[pos + 1], ~script[pos + 1].profile, e, o)
  /\ pos' = pos + 1
  /\ UNCHANGED <<script, trace, driven, viewerVars>>

NextTwin ==
  \/ DriveFirst
  \/ ConstructSecond
  \/ DriveSecond

SpecTwin == Init /\ [][NextTwin]_vars

----------------------------------------------------------------------------
(* Properties *)

\* the call that led to the next state was `op`
Called(op) == lastCall'.op = op

\* the call that led to the next state was a successful initObject
ObjectAdded == Called("initObject") /\ lastCall'.invoked /\ lastCall'.ok

\* C1: the identities returned by successful addObject calls are pairwise
\* distinct and strictly increasing in call order (each is larger than every
\* identity returned before it), and an identity that was removed is never
\* returned again.
C1_IdentitiesIncreaseNoReuse ==
  [][ObjectAdded =>
       /\ issued' = Append(issued, lastCall'.res)
       /\ \A i \in DOMAIN issued : issued[i] < lastCall'.res
       /\ lastCall'.res \notin removed]_vars

\* C1 witness: an object was added after the first identity had been removed
C1_Witness ==
  /\ lastCall.op = "initObject" /\ lastCall.invoked /\ lastCall.ok
  /\ Len(issued) >= 2
  /\ issued[1] \in removed
  /\ process = "running"

\* what a caller can tell apart from success: false from initScene, the
\* failure identity from initObject
ReturnedFailure(call) ==
  IF call.op = "initScene" THEN ~call.ok ELSE call.res = FailureID

\* C2: when the validator rejects the mesh group handed to addScene or
\* addObject, the call returns failure, the manager state (object map, scene,
\* next-identity counter) is what it was before the call, and the backend's
\* initializeScene / initializeObject was not invoked.
C2_RejectionReturnsFailureKeepsState ==
  [][((Called("initScene") \/ Called("initObject")) /\ ~lastCall'.valid) =>
       /\ ReturnedFailure(lastCall')
       /\ UNCHANGED managerVars
       /\ ~lastCall'.invoked]_vars

\* C3: a per-object call with an identity that was never issued or was removed
\* fails with UnknownObjectId and leaves all the manager state unchanged.
C3_UnknownIdRejected ==
  [][((Called("applyForce") \/ Called("applyImpulse") \/ Called("removeObject"))
       /\ ~KnownObject(dynamicObjects, lastCall'.id)) =>
       /\ lastCall'.err = "UnknownObjectId"
       /\ UNCHANGED managerVars]_vars

\* C4: a value returned by a failed addObject (validation refused the group or
\* the backend failed) is never an identity returned by a successful addObject,
\* earlier or later (looked at while the process runs normally).
C4_FailureValueIsNoIdentity ==
  process = "running" =>
    \A v \in failed : \A i \in DOMAIN issued : issued[i] # v

\* C5: when the backend fails to build the body, addObject returns the failure
\* identity, adds no record and does not advance the counter; a successful
\* addObject returns the counter's value, so the next success after a failure
\* returns what it would have returned without the failed call.
C5_BackendFailureIsAtomic ==
  [][/\ (Called("initObject") /\ lastCall'.invoked /\ ~lastCall'.ok) =>
          (/\ lastCall'.res = FailureID
           /\ dynamicObjects' = dynamicObjects
           /\ nextObjectID' = nextObjectID
           /\ issued' = issued)
      /\ (ObjectAdded => lastCall'.res = nextObjectID)]_vars

\* C5 witness: the backend failed on a manager that already holds an object
C5_Witness ==
  /\ lastCall.op = "initObject" /\ lastCall.invoked /\ ~lastCall.ok
  /\ ~lastCall.ub
  /\ nextObjectID >= 1

\* C6: the validator accepts a mesh group if and only if every primitive of it
\* is a triangle list, wherever in the group another primitive stands.
C6_AcceptsIffAllTriangles ==
  vResult # "none" =>
    (vResult = "accepted" <=>
       \A i \in 1..Len(vGroup) : vGroup[i] = "Triangles")

\* C6 witness: a group was refused for its last primitive alone
C6_Witness ==
  /\ vResult = "rejected"
  /\ Len(vGroup) >= 2
  /\ \A i \in 1..(Len(vGroup) - 1) : vGroup[i] = "Triangles"
  /\ vGroup[Len(vGroup)] = "TriangleStrip"

\* C7: a call of initialize on an initialized manager fails and leaves gravity,
\* the backend world, the registry and the profiling setting as they were.
C7_ReinitializeFails ==
  [][(Called("initPhysics") /\ initialized) =>
       /\ ~lastCall'.ok
       /\ bWorld' = bWorld
       /\ dynamicObjects' = dynamicObjects
       /\ nextObjectID' = nextObjectID
       /\ do_profile' = do_profile
       /\ initialized']_vars

\* C8: at most one scene is ever bound: in every reachable state the number of
\* scene bodies is 0 or 1.
C8_AtMostOneScene == bWorld.scenes <= 1

\* C9: stepSimulation on an uninitialized manager is a no-op and no error: the
\* world is not stepped, world time, the profiling counters and the registry are
\* unchanged and the manager stays uninitialized.
C9_UninitializedStepIsNoOp ==
  [][(Called("stepPhysics") /\ ~initialized) =>
       /\ UNCHANGED managerVars
       /\ ~lastCall'.ok]_vars

\* C9 witness: stepPhysics was called before initPhysics
C9_Witness == lastCall.op = "stepPhysics" /\ ~initialized

\* C10: one stepSimulation of an initialized manager with a positive
\* fixedTimeStep advances the world time by at most maxSubSteps * fixedTimeStep,
\* for every dt >= 0: it runs whole sub-steps of fixedTimeStep, no more than
\* maxSubSteps of them, and carries less than one sub-step over to later calls.
C10_StepBoundedBySubSteps ==
  [][(Called("stepPhysics") /\ initialized /\ fixedTimeStep > 0) =>
       LET advance == bWorld'.time - bWorld.time
       IN  /\ lastCall'.ok
           /\ advance >= 0
           /\ advance <= maxSubSteps * fixedTimeStep
           /\ advance % fixedTimeStep = 0
           /\ advance \div fixedTimeStep <= maxSubSteps
           /\ bWorld'.localTime < fixedTimeStep]_vars

\* C10 witness: a step whose frame duration held more than maxSubSteps sub-steps
C10_Witness ==
  /\ lastCall.op = "stepPhysics" /\ lastCall.capped
  /\ bWorld.time = maxSubSteps * fixedTimeStep

\* the call of the step is op, on the attribute store
AttrCalled(op) == lastAttr'.op = op

GetOps == {"getDouble", "getInt", "getString", "getMagnumVec3", "getVecStrings"}
SetOps == {"setDouble", "setInt", "setString", "setMagnumVec3", "setVecStrings"}

\* the value a set call was given, or a get call returned
Carried(call) == IF call.t = "VEC_STRINGS" THEN call.list ELSE call.val

\* every entry of map under a name other than key
Others(map, key) == [k \in DOMAIN map \ {key} |-> map[k]]

\* C13: a name can be held by several partitions independently: when
\* setString(k, s) follows setDouble(k, d), k is held as DOUBLE with d and as
\* STRING with s, and count(k) is 2 when no third partition holds k; eraseAs(DOUBLE,
\* k) removes k from the double partition only: the string partition is the same
\* after it and count(k) is one less when k was held as DOUBLE.
C13_PartitionsIndependent ==
  [][/\ (/\ lastAttr.op = "setDouble"
         /\ AttrCalled("setString")
         /\ lastAttr'.key = lastAttr.key) =>
          LET k == lastAttr.key
          IN  /\ existsAs("DOUBLE", k)'
              /\ existsAs("STRING", k)'
              /\ doubleMap'[k] = lastAttr.val
              /\ stringMap'[k] = lastAttr'.val
              /\ count(k)' >= 2
              /\ (\A t \in {"INT", "MAGNUMVEC3", "VEC_STRINGS"} : ~existsAs(t, k))
                   => count(k)' = 2
     /\ \A k \in Keys :
          (AttrCalled("eraseAs") /\ lastAttr'.t = "DOUBLE" /\ lastAttr'.key = k) =>
            /\ ~existsAs("DOUBLE", k)'
            /\ stringMap' = stringMap
            /\ existsAs("STRING", k)' = existsAs("STRING", k)
            /\ count(k)' = count(k) - (IF existsAs("DOUBLE", k) THEN 1 ELSE 0)
    ]_vars

\* C13 witness: eraseAs(DOUBLE, "x") was called, and "x" is no longer held as
\* DOUBLE but still as STRING with its value, in one partition only
C13_Witness ==
  /\ lastAttr.op = "eraseAs" /\ lastAttr.t = "DOUBLE" /\ lastAttr.key = "x"
  /\ ~existsAs("DOUBLE", "x")
  /\ existsAs("STRING", "x") /\ stringMap["x"] = "a"
  /\ count("x") = 1

\* C14: whenever exists, existsAs or count is called (in any state the store
\* can be in, on any name), count(name) is the number of types t with
\* existsAs(t, name), it lies in 0..5, and exists(name) is true exactly when
\* count(name) >= 1; the call returns that value and leaves the five maps as
\* they are.
C14_CountMatchesPartitions ==
  [][(AttrCalled("exists") \/ AttrCalled("existsAs") \/ AttrCalled("count")) =>
       /\ UNCHANGED storeVars
       /\ \A k \in Keys :
            lastAttr'.key = k =>
              /\ count(k) = Cardinality({t \in DataTypes : existsAs(t, k)})
              /\ count(k) \in 0..5
              /\ exists(k) <=> count(k) >= 1
              /\ AttrCalled("exists") => lastAttr'.flag = exists(k)
              /\ AttrCalled("existsAs") =>
                   lastAttr'.flag = existsAs(lastAttr'.t, k)
              /\ AttrCalled("count") => lastAttr'.num = count(k)
    ]_vars

\* C14 witness: count was called on a name that all five partitions hold
C14_Witness ==
  /\ lastAttr.op = "count" /\ lastAttr.num = 5
  /\ \A t \in DataTypes : existsAs(t, lastAttr.key)

\* C15: a typed read of a name that the partition of that type does not hold
\* fails with KeyNotFound, also when another partition holds the name; no value
\* is returned, no entry is inserted: the five maps, and so count(name), are the
\* same after the read.
C15_AbsentReadFails ==
  [][\A t \in DataTypes, k \in Keys :
       (/\ lastAttr'.op \in GetOps
        /\ lastAttr'.t = t
        /\ lastAttr'.key = k
        /\ ~existsAs(t, k)) =>
         /\ lastAttr'.err = "KeyNotFound"
         /\ lastAttr'.val = NoAttrCall.val
         /\ lastAttr'.list = NoAttrCall.list
         /\ UNCHANGED storeVars
         /\ count(k)' = count(k)
         /\ ~existsAs(t, k)'
    ]_vars

\* C15 witness: getDouble failed on a name that the string partition holds
C15_Witness ==
  /\ lastAttr.op = "getDouble" /\ lastAttr.err = "KeyNotFound"
  /\ existsAs("STRING", lastAttr.key)
  /\ ~existsAs("DOUBLE", lastAttr.key)

\* C16: a set of type T on name inserts the entry when partition T lacks the
\* name and overwrites it otherwise: afterwards partition T holds the value
\* under the name, every other name of partition T and every other partition is
\* unchanged, and a read of type T of that name right after returns the value.
C16_SetInsertsOrOverwrites ==
  [][/\ \A t \in DataTypes, k \in Keys :
          (lastAttr'.op \in SetOps /\ lastAttr'.t = t /\ lastAttr'.key = k) =>
            /\ existsAs(t, k)'
            /\ Partition(t)'[k] = Carried(lastAttr')
            /\ DOMAIN Partition(t)' = DOMAIN Partition(t) \cup {k}
            /\ Others(Partition(t)', k) = Others(Partition(t), k)
            /\ \A u \in DataTypes \ {t} : Partition(u)' = Partition(u)
     /\ (/\ lastAttr.op \in SetOps
         /\ lastAttr'.op \in GetOps
         /\ lastAttr'.t = lastAttr.t
         /\ lastAttr'.key = lastAttr.key) =>
          /\ lastAttr'.err = "none"
          /\ Carried(lastAttr') = Carried(lastAttr)
    ]_vars

\* C16 witness: setDouble wrote "2.0" under "x" while "y" is held as DOUBLE
\* with "1.0" and "x" is held by the string partition too
C16_Witness ==
  /\ lastAttr.op = "setDouble" /\ lastAttr.key = "x" /\ lastAttr.val = "2.0"
  /\ existsAs("DOUBLE", "x") /\ doubleMap["x"] = "2.0"
  /\ existsAs("DOUBLE", "y") /\ doubleMap["y"] = "1.0"
  /\ existsAs("STRING", "x")

\* C17: eraseAll(name) removes the name from every partition (count(name) is 0
\* afterwards) and eraseAs(t, name) removes it from partition t only; both leave
\* every other name as it was in all partitions, raise no error, and change
\* nothing when the name is absent: a second application changes nothing more.
C17_EraseRemovesOnlyTheName ==
  [][/\ \A k \in Keys :
          (AttrCalled("eraseAll") /\ lastAttr'.key = k) =>
            /\ count(k)' = 0
            /\ \A t \in DataTypes :
                 /\ Others(Partition(t)', k) = Others(Partition(t), k)
                 /\ EraseIfHeld(Partition(t)', k) = Partition(t)'
            /\ (count(k) = 0 => UNCHANGED storeVars)
            /\ lastAttr'.err = "none"
     /\ \A t \in DataTypes, k \in Keys :
          (AttrCalled("eraseAs") /\ lastAttr'.t = t /\ lastAttr'.key = k) =>
            /\ ~existsAs(t, k)'
            /\ Others(Partition(t)', k) = Others(Partition(t), k)
            /\ \A u \in DataTypes \ {t} : Partition(u)' = Partition(u)
            /\ EraseIfHeld(Partition(t)', k) = Partition(t)'
            /\ (~existsAs(t, k) => UNCHANGED storeVars)
            /\ lastAttr'.err = "none"
    ]_vars

\* C17 witness: eraseAll("x") was called and "x" is held nowhere while "y" is
\* still held by two partitions
C17_Witness ==
  /\ lastAttr.op = "eraseAll" /\ lastAttr.key = "x"
  /\ count("x") = 0
  /\ count("y") >= 2

\* C18: append(name, item) makes a one-item list when the name is absent and
\* otherwise puts the item at the end, keeping the items and their order, and
\* leaves the lists of the other names alone; when the item was not in the list,
\* a remove(name, item) right after the append gives the list of before the
\* append, whichever occurrences a removal takes out.
C18_AppendAtEndThenRemove ==
  [][/\ \A k \in Keys :
          (AttrCalled("appendVecStrings") /\ lastAttr'.key = k) =>
            /\ existsAs("VEC_STRINGS", k)'
            /\ vecStringsMap'[k] = ListAt(vecStringsMap, k) \o <<lastAttr'.val>>
            /\ (~existsAs("VEC_STRINGS", k) =>
                  vecStringsMap'[k] = <<lastAttr'.val>>)
            /\ Others(vecStringsMap', k) = Others(vecStringsMap, k)
     /\ (/\ lastAttr.op = "appendVecStrings"
         /\ AttrCalled("removeFromVecString")
         /\ lastAttr'.key = lastAttr.key
         /\ lastAttr'.val = lastAttr.val
         /\ \A i \in 1..Len(lastAttr.list) : lastAttr.list[i] # lastAttr.val) =>
          /\ vecStringsMap'[lastAttr.key] = lastAttr.list
          /\ lastAttr'.err = "none"
    ]_vars

\* C18 witness: "b" was removed from the list <<"a", "b">>, which is <<"a">> again
C18_Witness ==
  /\ lastAttr.op = "removeFromVecString" /\ lastAttr.val = "b"
  /\ lastAttr.list = <<"a", "b">>
  /\ vecStringsMap[lastAttr.key] = <<"a">>

\* the force and impulse calls queued on a body
Queued(b) == b.forces + b.impulses

\* C11: a force or impulse call on a registered identity queues one call on
\* that body and on no other; the next stepSimulation applies every queued call
\* of every registered body and leaves none queued; between two steps no other
\* operation takes a call off a queue.
C11_QueuedCallsAppliedByNextStep ==
  [][/\ ((Called("applyForce") \/ Called("applyImpulse")) /\ lastCall'.ok) =>
          /\ DOMAIN dynamicObjects' = DOMAIN dynamicObjects
          /\ \A k \in DOMAIN dynamicObjects :
               Queued(dynamicObjects'[k]) =
                 Queued(dynamicObjects[k]) + (IF k = lastCall'.id THEN 1 ELSE 0)
     /\ (Called("stepPhysics") /\ lastCall'.ok) =>
          /\ lastCall'.applied = PendingCalls(dynamicObjects)
          /\ \A k \in DOMAIN dynamicObjects' : Queued(dynamicObjects'[k]) = 0
     /\ (Called("initPhysics") \/ Called("initObject") \/ Called("nextFrame")) =>
          \A k \in DOMAIN dynamicObjects :
            KnownObject(dynamicObjects, k) =>
              /\ KnownObject(dynamicObjects', k)
              /\ Queued(dynamicObjects'[k]) = Queued(dynamicObjects[k])
    ]_vars

\* C12: a successful removeObject(id) takes id, and only id, out of the
\* registry, leaves the other bodies and the next-identity counter as they were,
\* and from then on every interaction call on id fails with UnknownObjectId and
\* changes nothing.
C12_RemovedIdentityIsUnknown ==
  [][/\ (Called("removeObject") /\ lastCall'.ok) =>
          /\ ~KnownObject(dynamicObjects', lastCall'.id)
          /\ DOMAIN dynamicObjects' = DOMAIN dynamicObjects \ {lastCall'.id}
          /\ \A k \in DOMAIN dynamicObjects' : dynamicObjects'[k] = dynamicObjects[k]
          /\ nextObjectID' = nextObjectID
     /\ ((Called("applyForce") \/ Called("applyImpulse") \/ Called("removeObject"))
         /\ lastCall'.id \in removed) =>
          /\ lastCall'.err = "UnknownObjectId"
          /\ UNCHANGED managerVars
    ]_vars

\* C19: profiling is purely observational: when a second manager is driven by
\* the calls made on a first one, with profiling enabled where the first had it
\* disabled and the other way round, then after every call the two managers
\* that are both running have the same simulation state (initialized flag,
\* fixedTimeStep, backend world with its time, registry, next identity) and the
\* call returned the same (same sub-steps capped, same queued calls applied).
C19_ProfilingIsObservational ==
  (driven = 2 /\ pos >= 1 /\ process = "running"
   /\ trace[pos].sim.process = "running") =>
     /\ SimState = trace[pos].sim
     /\ lastCall = trace[pos].call

\* C19 witness: the second manager took every call of the script, the last one
\* a step that ran with a body in the registry, and its frame counter differs
\* from the first manager's
C19_Witness ==
  /\ driven = 2 /\ pos = Len(script) /\ pos >= 3
  /\ lastCall.op = "stepPhysics" /\ lastCall.ok
  /\ process = "running"
  /\ dynamicObjects # <<>>
  /\ total_frames # trace[pos].frames

\* C21: the gravity the world holds is the one the last setGravity gave it (the
\* one initialize gave it when setGravity was never called): a setGravity(g)
\* makes it g and leaves what was simulated so far as it was, no other call on
\* an initialized manager changes it, every step integrates with it, and
\* getGravity returns it.
C21_GravityFromLastSetGravity ==
  [][bWorld.exists =>
       /\ (Called("setGravity") /\ lastCall'.ok) =>
             /\ bWorld'.gravity = lastCall'.gravity
             /\ bWorld'.time = bWorld.time
             /\ bWorld'.momentum = bWorld.momentum
       /\ ~Called("setGravity") => bWorld'.gravity = bWorld.gravity
       /\ (Called("stepPhysics") /\ lastCall'.ok) =>
             bWorld'.momentum - bWorld.momentum
               = Pull(bWorld.gravity) * (bWorld'.time - bWorld.time)
       /\ (Called("getGravity") /\ lastCall'.ok) =>
             lastCall'.gravity = bWorld.gravity]_vars

\* C22: setTranslation(id, v) on a registered identity gives the object the
\* translation v and leaves every other object as it was; made a second time
\* right after the first, with the same id and v, it changes nothing.
C22_SetTranslationIdempotent ==
  [][(Called("setTranslation") /\ lastCall'.ok) =>
       /\ DOMAIN dynamicObjects' = DOMAIN dynamicObjects
       /\ dynamicObjects'[lastCall'.id].translation = lastCall'.vec
       /\ \A k \in DOMAIN dynamicObjects \ {lastCall'.id} :
             dynamicObjects'[k] = dynamicObjects[k]
       /\ lastCall'.repeat => dynamicObjects' = dynamicObjects]_vars

\* C22 witness: the same setTranslation was made twice in a row on one of two
\* registered objects, away from where the object was created
C22_Witness ==
  /\ lastCall.op = "setTranslation" /\ lastCall.ok /\ lastCall.repeat
  /\ lastCall.vec # 0
  /\ Cardinality(DOMAIN dynamicObjects) = 2
  /\ \E k \in DOMAIN dynamicObjects :
       dynamicObjects[k].translation # lastCall.vec

\* C23: the scene takes no object identity: an initScene call leaves the
\* identity counter and the registry as they were, the first successful scene
\* of an initialized manager makes the scene count 1, and the k-th successful
\* initObject returns k-1 (the first one 0), whether a scene was added or not.
C23_SceneTakesNoIdentity ==
  [][/\ ObjectAdded => lastCall'.res = Len(issued)
     /\ Called("initScene") =>
          /\ nextObjectID' = nextObjectID
          /\ dynamicObjects' = dynamicObjects
          /\ issued' = issued
     /\ (Called("initScene") /\ lastCall'.invoked /\ lastCall'.ok
         /\ bWorld.exists /\ bWorld.scenes = 0) => bWorld'.scenes = 1]_vars

\* C23 witness: with one scene in the world, a second object was added and got
\* identity 1
C23_Witness ==
  /\ lastCall.op = "initObject" /\ lastCall.invoked /\ lastCall.ok
  /\ bWorld.scenes = 1
  /\ issued = <<0, 1>>
  /\ process = "running"

\* C24: the mass handed to the backend for a new body is the configured mass
\* when the object's attributes hold one, and the mass derived from the size of
\* the first primitive's index buffer only when they hold none.
C24_MassFromConfiguration ==
  [][(Called("initObject") /\ lastCall'.invoked /\ ~lastCall'.empty) =>
       IF lastCall'.configured = <<>>
         THEN lastCall'.mass = lastCall'.indices
         ELSE lastCall'.mass = lastCall'.configured[1]]_vars

\* C25: in every reachable state the fixed time step is positive and the
\* sub-step cap is at least one, whatever value setTimestep was called with.
C25_TimestepPositive == fixedTimeStep > 0 /\ maxSubSteps >= 1

\* C26: every key of the object map is an identity that a successful
\* initObject returned and that was not removed since, lies in
\* 0..nextObjectID-1, and maps to a body that is not null.
C26_RegistryWellFormed ==
  \A k \in DOMAIN dynamicObjects :
    /\ ~dynamicObjects[k].null
    /\ k \in 0..(nextObjectID - 1)
    /\ \E i \in 1..Len(issued) : issued[i] = k
    /\ k \notin removed

\* C27: the backend world is not used before initialize made it: an initScene
\* or initObject call on a manager that is not initialized fails (initScene
\* returns false, initObject a value that is no identity), hands nothing to
\* the backend, dereferences no null world and registers nothing.
C27_NoWorldUseBeforeInitialize ==
  [][((Called("initScene") \/ Called("initObject")) /\ ~initialized) =>
       /\ ~lastCall'.ub
       /\ ~lastCall'.invoked
       /\ ~lastCall'.ok
       /\ process' = "running"
       /\ dynamicObjects' = dynamicObjects
       /\ bWorld' = bWorld]_vars

\* C28: initObject with an empty mesh group, on an initialized manager, reads
\* no primitive: the call runs into no undefined behaviour, and when it goes
\* as far as the backend the mass it hands over is the configured one.
C28_EmptyGroupReadsNoPrimitive ==
  [][(Called("initObject") /\ lastCall'.empty /\ bWorld.exists) =>
       /\ ~lastCall'.ub
       /\ process' = "running"
       /\ lastCall'.invoked =>
            /\ lastCall'.configured # <<>>
            /\ lastCall'.mass = lastCall'.configured[1]]_vars

C29_ViewerListRegistered ==
  [][/\ \A i \in 1..Len(objectIDs') :
          KnownObject(dynamicObjects', objectIDs'[i])
     /\ (Called("addObject") /\ ~lastCall'.ok) =>
          /\ objectIDs' = objectIDs
          /\ ~lastCall'.kinematic
     /\ Called("removeObject") =>
          /\ lastCall'.id = Back(objectIDs)
          /\ objectIDs' = PopBack(objectIDs)
          /\ Back(objectIDs) \notin DOMAIN dynamicObjects']_vars

\* C20: each advanceFrame call adds exactly one to the frame counter, and its
\* census changes neither the registry, nor the next-identity counter, nor any
\* body (the bodies of the registry and the world they are in).
C20_FrameCountedCensusReadOnly ==
  [][Called("nextFrame") =>
       /\ total_frames' = total_frames + 1
       /\ dynamicObjects' = dynamicObjects
       /\ nextObjectID' = nextObjectID
       /\ bWorld' = bWorld]_vars

====
